---- MODULE Spec2Model ----
(***************************************************************************)
(* Model of src/cli/logical_tables.rs: the decoder of the ECMA-335 "#~"    *)
(* table stream (stream header, heap and coded indexes, Module and TypeRef *)
(* rows).                                                                  *)
(*                                                                         *)
(* Integers: TLC's integers are 32-bit signed, so a u32 of the program is  *)
(* the pair <<hi, lo>> of its 16-bit halves and the u64 valid mask is the  *)
(* sequence of its 8 little-endian bytes; a usize cursor is a plain Nat.   *)
(***************************************************************************)
EXTENDS Integers, Sequences, FiniteSets, TLC

VARIABLES
  data,               \* the byte slice given to Tables::parse
  pc,                 \* position of the decode
  offset,             \* *offset, the cursor of the parse that is running
  string_index_size,  \* Tables.string_index_size
  guid_index_size,    \* Tables.guid_index_size
  blob_index_size,    \* Tables.blob_index_size
  valid_mask,         \* Tables.valid_mask (8 little-endian bytes)
  lens,               \* Tables.lens
  size,               \* Tables.size
  i,                  \* loop index of Tables::parse
  tables,             \* result of Tables::parse: "none", "ok" or an error
  base,               \* where in `data` the slice given to TableRows::parse begins
  rows_data,          \* the byte slice given to TableRows::parse
  row,                \* loop index of the running parse_many
  cur,                \* locals of the row being decoded
  vec,                \* `result`, the Vec of the running parse_many
  modules,            \* local `modules` of TableRows::parse
  type_refs,          \* local `type_refs` of TableRows::parse
  out,                \* result of TableRows::parse
  regions,            \* history: the parse_many calls made, with the stream offset each began at
  kind,               \* the coded index kind whose parse is applied (SpecCoded)
  coded               \* result of that parse (SpecCoded)

vars == <<data, pc, offset, string_index_size, guid_index_size, blob_index_size,
          valid_mask, lens, size, i, tables, base, rows_data, row, cur, vec,
          modules, type_refs, out, regions, kind, coded>>

----------------------------------------------------------------------------
(* Table ids, ECMA II.22 *)

METADATA_MODULE == 0
METADATA_TYPE_REF == 1
METADATA_TYPE_DEF == 2
METADATA_FIELD == 4
METADATA_METHOD_DEF == 6
METADATA_PARAM == 8
METADATA_INTERFACE_IMPL == 9
METADATA_MEMBER_REF == 10
METADATA_CONSTANT == 11
METADATA_CUSTOM_ATTRIBUTE == 12
METADATA_FIELD_MARSHAL == 13
METADATA_DECL_SECURITY == 14
METADATA_CLASS_LAYOUT == 15
METADATA_FIELD_LAYOUT == 16
METADATA_STANDALONE_SIG == 17
METADATA_EVENT_MAP == 18
METADATA_EVENT == 20
METADATA_PROPERTY_MAP == 21
METADATA_PROPERTY == 23
METADATA_METHOD_SEMANTICS == 24
METADATA_METHOD_IMPL == 25
METADATA_MODULE_REF == 26
METADATA_TYPE_SPEC == 27
METADATA_IMPL_MAP == 28
METADATA_FIELD_RVA == 29
METADATA_ASSEMBLY == 32
METADATA_ASSEMBLY_PROCESSOR == 33
METADATA_ASSEMBLY_OS == 34
METADATA_ASSEMBLY_REF == 35
METADATA_ASSEMBLY_REFPROCESSOR == 36
METADATA_ASSEMBLY_REFOS == 37
METADATA_FILE == 38
METADATA_EXPORTED_TYPE == 39
METADATA_MANIFEST_RESOURCE == 40
METADATA_NESTED_CLASS == 41
METADATA_GENERIC_PARAM == 42
METADATA_METHOD_SPEC == 43
METADATA_GENERIC_PARAM_CONSTRAINT == 44

(* lens.len(): the number of table slots of the header, [u32; 64] *)
LENS_LEN == 64

----------------------------------------------------------------------------
(* Machine integers *)

Pow2(n) == 2 ^ n

(* a u32 from a number below 2^31 *)
U32(n) == <<n \div 65536, n % 65536>>

U32_ZERO == <<0, 0>>

(* x < n, for a u32 x and a usize n below 2^31 *)
U32Lt(x, n) == x[1] < n \div 65536 \/ (x[1] = n \div 65536 /\ x[2] < n % 65536)

(* std::cmp::max on u32 *)
U32Max(x, y) == IF x[1] > y[1] \/ (x[1] = y[1] /\ x[2] >= y[2]) THEN x ELSE y

(* value >> bits on u32, bits <= 16 *)
U32Shr(x, bits) ==
  << x[1] \div Pow2(bits),
     (x[2] \div Pow2(bits)) + (x[1] % Pow2(bits)) * Pow2(16 - bits) >>

(* value & ((1 << bits) - 1) on u32, bits <= 16: the result fits the low half *)
U32LowBits(x, bits) == x[2] % Pow2(bits)

(* i < n, for a loop index i and n = a u32 cast to usize *)
IndexBelow(idx, n) == n[1] > 0 \/ idx < n[2]

----------------------------------------------------------------------------
(* crate::buf::Reading: bounds-checked little-endian reads at a cursor *)

CanRead(d, off, width) == off + width <= Len(d)

ReadU8(d, off) == d[off + 1]

ReadU16(d, off) == d[off + 1] + 256 * d[off + 2]

ReadU32(d, off) == <<ReadU16(d, off + 2), ReadU16(d, off)>>

ReadU64(d, off) == SubSeq(d, off + 1, off + 8)

BoundsError == "read past the end of the buffer"

----------------------------------------------------------------------------
(* Tables *)

IndexSizes == {"U16", "U32"}

(* a plausible slip: the bytes of the mask taken in big-endian order *)
MaskBit_BigEndian(mask, id) == (mask[8 - (id \div 8)] \div Pow2(id % 8)) % 2 = 1

(* (mask >> id) & 1 == 1 on the u64 held as 8 little-endian bytes *)
MaskBit(mask, id) == (mask[(id \div 8) + 1] \div Pow2(id % 8)) % 2 = 1

(* heap_sizes & bit == 0 ? U16 : U32 *)
HeapIndexSize(heap_sizes, bit) ==
  IF (heap_sizes \div bit) % 2 = 0 THEN "U16" ELSE "U32"

has_table(id) == MaskBit(valid_mask, id)

IndexWidth(index_size) == IF index_size = "U16" THEN 2 ELSE 4

----------------------------------------------------------------------------
(* Heap indexes *)

(* StringIndex::parse, GuidIndex::parse: a u16 or u32 read, widened to u32 *)
HeapIndexParse(index_size, d, off) ==
  IF ~CanRead(d, off, IndexWidth(index_size))
  THEN [ok |-> FALSE, err |-> BoundsError, offset |-> off]
  ELSE [ok |-> TRUE,
        value |-> IF index_size = "U16" THEN <<0, ReadU16(d, off)>> ELSE ReadU32(d, off),
        offset |-> off + IndexWidth(index_size)]

StringIndex_parse(d, off) == HeapIndexParse(string_index_size, d, off)

(* a plausible slip: the GUID index read in the width of the string index *)
GuidIndex_parse_StringSize(d, off) == HeapIndexParse(string_index_size, d, off)

GuidIndex_parse(d, off) == HeapIndexParse(guid_index_size, d, off)

----------------------------------------------------------------------------
(* Coded indexes, ECMA II.24.2.6. An entry is <<variant, tag, table id>>. *)

TypeDefOrRef ==
  [bits |-> 2,
   entries |-> << <<"TypeDef", 0, METADATA_TYPE_DEF>>,
                  <<"TypeRef", 1, METADATA_TYPE_REF>>,
                  <<"TypeSpec", 2, METADATA_TYPE_SPEC>> >>]

HasConstant ==
  [bits |-> 2,
   entries |-> << <<"Field", 0, METADATA_FIELD>>,
                  <<"Param", 1, METADATA_PARAM>>,
                  <<"Property", 2, METADATA_PROPERTY>> >>]

HasCustomAttribute ==
  [bits |-> 5,
   entries |-> << <<"MethodDef", 0, METADATA_METHOD_DEF>>,
                  <<"Field", 1, METADATA_FIELD>>,
                  <<"TypeRef", 2, METADATA_TYPE_REF>>,
                  <<"TypeDef", 3, METADATA_TYPE_DEF>>,
                  <<"Param", 4, METADATA_PARAM>>,
                  <<"InterfaceImpl", 5, METADATA_INTERFACE_IMPL>>,
                  <<"MemberRef", 6, METADATA_MEMBER_REF>>,
                  <<"Module", 7, METADATA_MODULE>>,
                  <<"Permission", 8, METADATA_DECL_SECURITY>>,
                  <<"Property", 9, METADATA_PROPERTY>>,
                  <<"Event", 10, METADATA_EVENT>>,
                  <<"StandAloneSig", 11, METADATA_STANDALONE_SIG>>,
                  <<"ModuleRef", 12, METADATA_MODULE_REF>>,
                  <<"TypeSpec", 13, METADATA_TYPE_SPEC>>,
                  <<"Assembly", 14, METADATA_ASSEMBLY>>,
                  <<"AssemblyRef", 15, METADATA_ASSEMBLY_REF>>,
                  <<"File", 16, METADATA_FILE>>,
                  <<"ExportedType", 17, METADATA_EXPORTED_TYPE>>,
                  <<"ManifestResource", 18, METADATA_MANIFEST_RESOURCE>>,
                  <<"GenericParam", 19, METADATA_GENERIC_PARAM>>,
                  <<"GenericParamConstraint", 20, METADATA_GENERIC_PARAM_CONSTRAINT>>,
                  <<"MethodSpec", 21, METADATA_METHOD_SPEC>> >>]

HasFieldMarshall ==
  [bits |-> 1,
   entries |-> << <<"Field", 0, METADATA_FIELD>>,
                  <<"Param", 1, METADATA_PARAM>> >>]

HasDeclSecurity ==
  [bits |-> 2,
   entries |-> << <<"TypeDef", 0, METADATA_TYPE_DEF>>,
                  <<"MethodDef", 1, METADATA_METHOD_DEF>>,
                  <<"Assembly", 2, METADATA_ASSEMBLY>> >>]

MemberRefParent ==
  [bits |-> 3,
   entries |-> << <<"TypeDef", 0, METADATA_TYPE_DEF>>,
                  <<"TypeRef", 1, METADATA_TYPE_REF>>,
                  <<"ModuleRef", 2, METADATA_MODULE_REF>>,
                  <<"MethodDef", 3, METADATA_METHOD_DEF>>,
                  <<"TypeSpec", 4, METADATA_TYPE_SPEC>> >>]

(* a plausible slip in a kind's definition: one tag bit too many *)
HasSemantics_TwoBits ==
  [bits |-> 2,
   entries |-> << <<"Event", 0, METADATA_EVENT>>,
                  <<"Property", 1, METADATA_PROPERTY>> >>]

HasSemantics ==
  [bits |-> 1,
   entries |-> << <<"Event", 0, METADATA_EVENT>>,
                  <<"Property", 1, METADATA_PROPERTY>> >>]

MethodDefOrRef ==
  [bits |-> 1,
   entries |-> << <<"MethodDef", 0, METADATA_METHOD_DEF>>,
                  <<"MemberRef", 1, METADATA_MEMBER_REF>> >>]

MemberForwarded ==
  [bits |-> 1,
   entries |-> << <<"Field", 0, METADATA_FIELD>>,
                  <<"MethodDef", 1, METADATA_METHOD_DEF>> >>]

Implementation ==
  [bits |-> 2,
   entries |-> << <<"File", 0, METADATA_FILE>>,
                  <<"AssemblyRef", 1, METADATA_ASSEMBLY_REF>>,
                  <<"ExportedType", 2, METADATA_EXPORTED_TYPE>> >>]

CustomAttributeType ==
  [bits |-> 3,
   entries |-> << <<"MethodDef", 2, METADATA_METHOD_DEF>>,
                  <<"MemberRef", 3, METADATA_MEMBER_REF>> >>]

ResolutionScope ==
  [bits |-> 2,
   entries |-> << <<"Module", 0, METADATA_MODULE>>,
                  <<"ModuleRef", 1, METADATA_MODULE_REF>>,
                  <<"AssemblyRef", 2, METADATA_ASSEMBLY_REF>>,
                  <<"TypeRef", 3, METADATA_TYPE_REF>> >>]

KindNames ==
  {"TypeDefOrRef", "HasConstant", "HasCustomAttribute", "HasFieldMarshall",
   "HasDeclSecurity", "MemberRefParent", "HasSemantics", "MethodDefOrRef",
   "MemberForwarded", "Implementation", "CustomAttributeType", "ResolutionScope"}

(* the coded_index! invocation that defines the enum `name` *)
Kind(name) ==
  CASE name = "TypeDefOrRef" -> TypeDefOrRef
    [] name = "HasConstant" -> HasConstant
    [] name = "HasCustomAttribute" -> HasCustomAttribute
    [] name = "HasFieldMarshall" -> HasFieldMarshall
    [] name = "HasDeclSecurity" -> HasDeclSecurity
    [] name = "MemberRefParent" -> MemberRefParent
    [] name = "HasSemantics" -> HasSemantics
    [] name = "MethodDefOrRef" -> MethodDefOrRef
    [] name = "MemberForwarded" -> MemberForwarded
    [] name = "Implementation" -> Implementation
    [] name = "CustomAttributeType" -> CustomAttributeType
    [] name = "ResolutionScope" -> ResolutionScope

(* max!(x, xs...): max(x, max!(xs...)) over header.lens[id] of the entries *)
RECURSIVE max_lens(_, _)
max_lens(entries, hlens) ==
  IF Len(entries) = 1 THEN hlens[entries[1][3]]
  ELSE U32Max(hlens[entries[1][3]], max_lens(Tail(entries), hlens))

(* the token trees of `$($v),+`: the variant names and the commas between them *)
RECURSIVE VariantTokens(_)
VariantTokens(entries) ==
  IF Len(entries) = 1 THEN <<entries[1][1]>>
  ELSE <<entries[1][1], ",">> \o VariantTokens(Tail(entries))

(* count_tts!: one per token tree *)
RECURSIVE count_tts(_)
count_tts(tts) == IF tts = <<>> THEN 0 ELSE 1 + count_tts(Tail(tts))

(* 64 - x.leading_zeros(): the number of bits of x *)
RECURSIVE log2(_)
log2(x) == IF x = 0 THEN 0 ELSE 1 + log2(x \div 2)

size_for_big_index(n) == Pow2(16 - log2(n))

(* max_len < size_for_big_index(COUNT) ? u16 : u32 *)
CodedIndexWidth(k, hlens) ==
  IF U32Lt(max_lens(k.entries, hlens), size_for_big_index(count_tts(VariantTokens(k.entries))))
  THEN 2 ELSE 4

(* a plausible slip: no `_` arm, an unknown tag falls to the last variant *)
RECURSIVE MatchTag_NoDefault(_, _, _)
MatchTag_NoDefault(entries, tag, idx) ==
  IF Len(entries) = 1 \/ entries[1][2] = tag
  THEN [ok |-> TRUE, variant |-> entries[1][1], idx |-> idx]
  ELSE MatchTag_NoDefault(Tail(entries), tag, idx)

(* match tag { $t => $name::$v(idx), ... _ => Err } *)
RECURSIVE MatchTag(_, _, _)
MatchTag(entries, tag, idx) ==
  IF entries = <<>> THEN [ok |-> FALSE, err |-> "Unknown coded index tag."]
  ELSE IF entries[1][2] = tag THEN [ok |-> TRUE, variant |-> entries[1][1], idx |-> idx]
  ELSE MatchTag(Tail(entries), tag, idx)

(* value & (1 << $bits) - 1 *)
CodedTag(value, bits) == U32LowBits(value, bits)

(* a plausible slip: the row index shifted by the kind's variant count *)
CodedIdx_ShiftByCount(value, bits) == U32Shr(value, bits + 1)

(* value >> $bits *)
CodedIdx(value, bits) == U32Shr(value, bits)

(* $name::parse(header, data, offset) *)
CodedIndexParse(k, hlens, d, off) ==
  LET width == CodedIndexWidth(k, hlens) IN
  IF ~CanRead(d, off, width)
  THEN [ok |-> FALSE, err |-> BoundsError, offset |-> off]
  ELSE LET value == IF width = 2 THEN <<0, ReadU16(d, off)>> ELSE ReadU32(d, off)
           m == MatchTag(k.entries, CodedTag(value, k.bits), CodedIdx(value, k.bits))
       IN IF m.ok
          THEN [ok |-> TRUE, variant |-> m.variant, idx |-> m.idx, offset |-> off + width]
          ELSE [ok |-> FALSE, err |-> m.err, offset |-> off + width]

----------------------------------------------------------------------------
(* Tables::parse *)

NoRow == [none |-> TRUE]

TablesFail(err) ==
  /\ tables' = err
  /\ pc' = "tables_err"
  /\ UNCHANGED <<string_index_size, guid_index_size, blob_index_size, valid_mask,
                 lens, size, i>>

(* *offset += 6; heap_sizes = data.read(offset)?; the three sizes; *offset += 1 *)
ReadHeapSizes ==
  /\ pc = "tables_heap_sizes"
  /\ LET at == offset + 6 IN
     IF ~CanRead(data, at, 1)
     THEN /\ TablesFail(BoundsError)
          /\ offset' = at
     ELSE LET heap_sizes == ReadU8(data, at) IN
          /\ string_index_size' = HeapIndexSize(heap_sizes, 1)
          /\ guid_index_size' = HeapIndexSize(heap_sizes, 2)
          /\ blob_index_size' = HeapIndexSize(heap_sizes, 4)
          /\ offset' = at + 1 + 1
          /\ pc' = "tables_valid"
          /\ UNCHANGED <<valid_mask, lens, size, i, tables>>
  /\ UNCHANGED <<data, base, rows_data, row, cur, vec, modules, type_refs, out,
                 regions, kind, coded>>

(* valid_mask = data.read(offset)?; *offset += 8 (Sorted); lens = [0; 64] *)
ReadValidMask ==
  /\ pc = "tables_valid"
  /\ IF ~CanRead(data, offset, 8)
     THEN /\ TablesFail(BoundsError)
          /\ offset' = offset
     ELSE /\ valid_mask' = ReadU64(data, offset)
          /\ offset' = offset + 8 + 8
          /\ lens' = [id \in 0..(LENS_LEN - 1) |-> U32_ZERO]
          /\ i' = 0
          /\ pc' = "tables_lens"
          /\ UNCHANGED <<string_index_size, guid_index_size, blob_index_size, size, tables>>
  /\ UNCHANGED <<data, base, rows_data, row, cur, vec, modules, type_refs, out,
                 regions, kind, coded>>

(* one iteration of: for i in 0..lens.len() { if bit i { lens[i] = data.read(offset)? } } *)
ReadLen ==
  /\ pc = "tables_lens"
  /\ i < LENS_LEN
  /\ IF MaskBit(valid_mask, i)
     THEN IF ~CanRead(data, offset, 4)
          THEN /\ TablesFail(BoundsError)
               /\ offset' = offset
          ELSE /\ lens' = [lens EXCEPT ![i] = ReadU32(data, offset)]
               /\ offset' = offset + 4
               /\ i' = i + 1
               /\ UNCHANGED <<string_index_size, guid_index_size, blob_index_size,
                              valid_mask, size, tables, pc>>
     ELSE /\ i' = i + 1
          /\ UNCHANGED <<string_index_size, guid_index_size, blob_index_size,
                         valid_mask, lens, size, tables, pc, offset>>
  /\ UNCHANGED <<data, base, rows_data, row, cur, vec, modules, type_refs, out,
                 regions, kind, coded>>

(* size = *offset; Ok(Tables { .. }) *)
TablesOk ==
  /\ pc = "tables_lens"
  /\ i = LENS_LEN
  /\ size' = offset
  /\ tables' = "ok"
  /\ pc' = "tables_ok"
  /\ UNCHANGED <<data, offset, string_index_size, guid_index_size, blob_index_size,
                 valid_mask, lens, i, base, rows_data, row, cur, vec, modules,
                 type_refs, out, regions, kind, coded>>

----------------------------------------------------------------------------
(* TableRows::parse *)

hdr == <<string_index_size, guid_index_size, blob_index_size, valid_mask, lens, size,
         i, tables>>

RowsFail(err) ==
  /\ out' = [ok |-> FALSE, err |-> err]
  /\ pc' = "rows_done"
  /\ vec' = <<>>
  /\ cur' = NoRow
  /\ UNCHANGED <<row, modules, type_refs, regions>>

(* a plausible slip: the cursor started at header.size within the row slice *)
RowsStartOffset_HeaderSize == size

(* the cursor TableRows::parse starts at: let mut offset = &mut 0 *)
RowsStartOffset == 0

(* the caller hands TableRows::parse the header and a slice of the stream: the
   whole stream again, or the row data that follows the header.size header bytes *)
BeginRows ==
  /\ pc = "tables_ok"
  /\ \E b \in {0, size} :
       /\ b <= Len(data)
       /\ base' = b
       /\ rows_data' = SubSeq(data, b + 1, Len(data))
  /\ offset' = RowsStartOffset
  /\ pc' = "rows_modules"
  /\ UNCHANGED <<data, row, cur, vec, modules, type_refs, out, regions, kind, coded>>
  /\ UNCHANGED hdr

(* the table! expansion for a table id: parse_many when present, else empty() *)
TableModules ==
  /\ pc = "rows_modules"
  /\ IF has_table(METADATA_MODULE)
     THEN /\ pc' = "module_row"
          /\ row' = 0
          /\ vec' = <<>>
          /\ regions' = Append(regions, [id |-> METADATA_MODULE, from |-> base + offset])
          /\ UNCHANGED modules
     ELSE /\ modules' = <<>>
          /\ pc' = "rows_type_refs"
          /\ UNCHANGED <<row, vec, regions>>
  /\ UNCHANGED <<data, offset, base, rows_data, cur, type_refs, out, kind, coded>>
  /\ UNCHANGED hdr

(* a 2-byte field that must be zero: data.read::<u16>(offset)?, then the check *)
ReservedU16(err, next) ==
  IF ~CanRead(rows_data, offset, 2)
  THEN /\ RowsFail(BoundsError)
       /\ offset' = offset
  ELSE IF ReadU16(rows_data, offset) # 0
  THEN /\ RowsFail(err)
       /\ offset' = offset + 2
  ELSE /\ offset' = offset + 2
       /\ next

(* Module::parse_many, loop head and generation *)
ModuleGeneration ==
  /\ pc = "module_row"
  /\ IndexBelow(row, lens[METADATA_MODULE])
  /\ ReservedU16("Module has invalid generation.",
                 /\ pc' = "module_name"
                 /\ UNCHANGED <<row, cur, vec, modules, type_refs, out, regions>>)
  /\ UNCHANGED <<data, base, rows_data, kind, coded>>
  /\ UNCHANGED hdr

ModuleName ==
  /\ pc = "module_name"
  /\ LET p == StringIndex_parse(rows_data, offset) IN
     IF ~p.ok
     THEN /\ RowsFail(p.err)
          /\ offset' = p.offset
     ELSE /\ cur' = [name |-> p.value]
          /\ offset' = p.offset
          /\ pc' = "module_mvid"
          /\ UNCHANGED <<row, vec, modules, type_refs, out, regions>>
  /\ UNCHANGED <<data, base, rows_data, kind, coded>>
  /\ UNCHANGED hdr

ModuleMvid ==
  /\ pc = "module_mvid"
  /\ LET p == GuidIndex_parse(rows_data, offset) IN
     IF ~p.ok
     THEN /\ RowsFail(p.err)
          /\ offset' = p.offset
     ELSE /\ cur' = [name |-> cur.name, mvid |-> p.value]
          /\ offset' = p.offset
          /\ pc' = "module_enc_id"
          /\ UNCHANGED <<row, vec, modules, type_refs, out, regions>>
  /\ UNCHANGED <<data, base, rows_data, kind, coded>>
  /\ UNCHANGED hdr

(* a plausible slip: EncId read and not checked *)
ModuleEncId_Unchecked ==
  /\ pc = "module_enc_id"
  /\ IF ~CanRead(rows_data, offset, 2)
     THEN /\ RowsFail(BoundsError)
          /\ offset' = offset
     ELSE /\ offset' = offset + 2
          /\ pc' = "module_enc_base_id"
          /\ UNCHANGED <<row, cur, vec, modules, type_refs, out, regions>>
  /\ UNCHANGED <<data, base, rows_data, kind, coded>>
  /\ UNCHANGED hdr

ModuleEncId ==
  /\ pc = "module_enc_id"
  /\ ReservedU16("Module.EncId is not zero.",
                 /\ pc' = "module_enc_base_id"
                 /\ UNCHANGED <<row, cur, vec, modules, type_refs, out, regions>>)
  /\ UNCHANGED <<data, base, rows_data, kind, coded>>
  /\ UNCHANGED hdr

(* enc_base_id, then result.push(Module { name, mvid }) *)
ModuleEncBaseId ==
  /\ pc = "module_enc_base_id"
  /\ ReservedU16("Module.EncBaseId is not zero.",
                 /\ vec' = Append(vec, cur)
                 /\ cur' = NoRow
                 /\ row' = row + 1
                 /\ pc' = "module_row"
                 /\ UNCHANGED <<modules, type_refs, out, regions>>)
  /\ UNCHANGED <<data, base, rows_data, kind, coded>>
  /\ UNCHANGED hdr

(* Ok(result.into_boxed_slice()), bound to `modules` *)
ModulesOk ==
  /\ pc = "module_row"
  /\ ~IndexBelow(row, lens[METADATA_MODULE])
  /\ modules' = vec
  /\ vec' = <<>>
  /\ pc' = "rows_type_refs"
  /\ UNCHANGED <<data, offset, base, rows_data, row, cur, type_refs, out, regions,
                 kind, coded>>
  /\ UNCHANGED hdr

TableTypeRefs ==
  /\ pc = "rows_type_refs"
  /\ IF has_table(METADATA_TYPE_REF)
     THEN /\ pc' = "type_ref_row"
          /\ row' = 0
          /\ vec' = <<>>
          /\ regions' = Append(regions, [id |-> METADATA_TYPE_REF, from |-> base + offset])
          /\ UNCHANGED type_refs
     ELSE /\ type_refs' = <<>>
          /\ pc' = "rows_ok"
          /\ UNCHANGED <<row, vec, regions>>
  /\ UNCHANGED <<data, offset, base, rows_data, cur, modules, out, kind, coded>>
  /\ UNCHANGED hdr

(* TypeRef::parse_many, loop head and scope *)
TypeRefScope ==
  /\ pc = "type_ref_row"
  /\ IndexBelow(row, lens[METADATA_TYPE_REF])
  /\ LET p == CodedIndexParse(ResolutionScope, lens, rows_data, offset) IN
     IF ~p.ok
     THEN /\ RowsFail(p.err)
          /\ offset' = p.offset
     ELSE /\ cur' = [scope |-> <<p.variant, p.idx>>]
          /\ offset' = p.offset
          /\ pc' = "type_ref_name"
          /\ UNCHANGED <<row, vec, modules, type_refs, out, regions>>
  /\ UNCHANGED <<data, base, rows_data, kind, coded>>
  /\ UNCHANGED hdr

TypeRefName ==
  /\ pc = "type_ref_name"
  /\ LET p == StringIndex_parse(rows_data, offset) IN
     IF ~p.ok
     THEN /\ RowsFail(p.err)
          /\ offset' = p.offset
     ELSE /\ cur' = [scope |-> cur.scope, name |-> p.value]
          /\ offset' = p.offset
          /\ pc' = "type_ref_namespace"
          /\ UNCHANGED <<row, vec, modules, type_refs, out, regions>>
  /\ UNCHANGED <<data, base, rows_data, kind, coded>>
  /\ UNCHANGED hdr

(* namespace, then result.push(TypeRef { scope, name, namespace }) *)
TypeRefNamespace ==
  /\ pc = "type_ref_namespace"
  /\ LET p == StringIndex_parse(rows_data, offset) IN
     IF ~p.ok
     THEN /\ RowsFail(p.err)
          /\ offset' = p.offset
     ELSE /\ vec' = Append(vec, [scope |-> cur.scope, name |-> cur.name,
                                 namespace |-> p.value])
          /\ cur' = NoRow
          /\ row' = row + 1
          /\ offset' = p.offset
          /\ pc' = "type_ref_row"
          /\ UNCHANGED <<modules, type_refs, out, regions>>
  /\ UNCHANGED <<data, base, rows_data, kind, coded>>
  /\ UNCHANGED hdr

TypeRefsOk ==
  /\ pc = "type_ref_row"
  /\ ~IndexBelow(row, lens[METADATA_TYPE_REF])
  /\ type_refs' = vec
  /\ vec' = <<>>
  /\ pc' = "rows_ok"
  /\ UNCHANGED <<data, offset, base, rows_data, row, cur, modules, out, regions,
                 kind, coded>>
  /\ UNCHANGED hdr

(* Ok(TableRows { modules, type_refs }) *)
RowsOk ==
  /\ pc = "rows_ok"
  /\ out' = [ok |-> TRUE, modules |-> modules, type_refs |-> type_refs]
  /\ pc' = "rows_done"
  /\ UNCHANGED <<data, offset, base, rows_data, row, cur, vec, modules, type_refs,
                 regions, kind, coded>>
  /\ UNCHANGED hdr

----------------------------------------------------------------------------
(* Application of one coded index kind's parse (SpecCoded) *)

CodedParse ==
  /\ pc = "coded_start"
  /\ coded' = CodedIndexParse(Kind(kind), lens, data, offset)
  /\ offset' = coded'.offset
  /\ pc' = "coded_done"
  /\ regions' = Append(regions, [id |-> kind, from |-> offset])
  /\ UNCHANGED <<data, string_index_size, guid_index_size, blob_index_size, valid_mask,
                 lens, size, i, tables, base, rows_data, row, cur, vec, modules,
                 type_refs, out, kind>>

----------------------------------------------------------------------------
(* Inputs: table streams as a producer writes them, and damaged ones *)

(* most rows of one table in a generated stream *)
MaxRows == 2

(* the small row indexes tried beside the largest one of a width *)
MaxSmallIdx == 1

LE16(n) == <<n % 256, n \div 256>>

LE32(x) == LE16(x[2]) \o LE16(x[1])

Zeros(n) == [j \in 1..n |-> 0]

(* value << bits on u32 *)
U32Shl(x, bits) ==
  << (x[1] * Pow2(bits) + x[2] \div Pow2(16 - bits)) % 65536,
     (x[2] * Pow2(bits)) % 65536 >>

(* raw = (row_index << b) | tag *)
EncodeCoded(idx, bits, tag) ==
  LET sh == U32Shl(idx, bits) IN <<sh[1], sh[2] + tag>>

(* the largest row index a coded index of `width` bytes holds *)
MaxCodedIdx(bits, width) ==
  IF width = 2 THEN <<0, Pow2(16 - bits) - 1>> ELSE <<Pow2(16 - bits) - 1, 65535>>

IndexBytes(x, width) == IF width = 2 THEN LE16(x[2]) ELSE LE32(x)

MaskByte(S, j) ==
  LET b(n) == IF (8 * (j - 1) + n) \in S THEN Pow2(n) ELSE 0
  IN b(0) + b(1) + b(2) + b(3) + b(4) + b(5) + b(6) + b(7)

MaskBytes(S) == [j \in 1..8 |-> MaskByte(S, j)]

Least(S) == CHOOSE m \in S : \A n \in S : m <= n

RECURSIVE CountBytes(_, _)
CountBytes(S, cnt) ==
  IF S = {} THEN <<>>
  ELSE LE32(cnt[Least(S)]) \o CountBytes(S \ {Least(S)}, cnt)

StdPrefix == <<0, 0, 0, 0, 2, 0>>

HeaderBytes(prefix, flags, reserved2, S, cnt) ==
  prefix \o <<flags, reserved2>> \o MaskBytes(S) \o Zeros(8) \o CountBytes(S, cnt)

FlagWidth(flags, bit) == IF (flags \div bit) % 2 = 1 THEN 4 ELSE 2

ModuleRowBytes(flags, gen, name, mvid, enc_id, enc_base_id) ==
  LE16(gen) \o IndexBytes(name, FlagWidth(flags, 1)) \o IndexBytes(mvid, FlagWidth(flags, 2))
  \o LE16(enc_id) \o LE16(enc_base_id)

TypeRefRowBytes(flags, scope, scope_width, name, namespace) ==
  IndexBytes(scope, scope_width) \o IndexBytes(name, FlagWidth(flags, 1))
  \o IndexBytes(namespace, FlagWidth(flags, 1))

(* a heap index that fills the width it is written in *)
WideIdx(flags, bit, n) == IF FlagWidth(flags, bit) = 4 THEN <<n, n + 1>> ELSE <<0, n + 1>>

GoodModuleRow(flags, n) ==
  ModuleRowBytes(flags, 0, WideIdx(flags, 1, n), WideIdx(flags, 2, n + 16), 0, 0)

GoodTypeRefRow(flags, n) ==
  TypeRefRowBytes(flags, EncodeCoded(U32(n + 1), 2, n % 4), 2,
                  WideIdx(flags, 1, n + 32), WideIdx(flags, 1, n + 48))

RECURSIVE Rows(_, _, _)
Rows(Mk(_, _), flags, n) ==
  IF n = 0 THEN <<>> ELSE Rows(Mk, flags, n - 1) \o Mk(flags, n - 1)

ZeroCounts == [id \in 0..(LENS_LEN - 1) |-> U32_ZERO]

(* every value of the heap-size flag byte, one Module and one TypeRef row *)
FlagStreams ==
  { HeaderBytes(StdPrefix, flags, 1, {0, 1}, [ZeroCounts EXCEPT ![0] = U32(1), ![1] = U32(1)])
    \o GoodModuleRow(flags, 0) \o GoodTypeRefRow(flags, 0) : flags \in 0..255 }

MaskIds == {METADATA_MODULE, METADATA_TYPE_REF, METADATA_TYPE_DEF, METADATA_MODULE_REF,
            METADATA_ASSEMBLY_REF, 63}

MaskCounts ==
  [ZeroCounts EXCEPT ![METADATA_MODULE] = U32(1), ![METADATA_TYPE_REF] = U32(2),
                     ![METADATA_TYPE_DEF] = U32(3), ![METADATA_MODULE_REF] = U32(5),
                     ![METADATA_ASSEMBLY_REF] = <<1, 4464>>, ![63] = <<65535, 65534>>]

(* every present mask over MaskIds, with the rows of Module and TypeRef *)
MaskStreams ==
  { HeaderBytes(StdPrefix, 0, 1, S, MaskCounts)
    \o (IF METADATA_MODULE \in S THEN GoodModuleRow(0, 0) ELSE <<>>)
    \o (IF METADATA_TYPE_REF \in S THEN Rows(GoodTypeRefRow, 0, 2) ELSE <<>>)
    \o Zeros(4) : S \in SUBSET MaskIds }

(* row counts 0..MaxRows of Module and TypeRef *)
CountStreams ==
  { HeaderBytes(StdPrefix, flags, 1, {0, 1}, [ZeroCounts EXCEPT ![0] = U32(m), ![1] = U32(t)])
    \o Rows(GoodModuleRow, flags, m) \o Rows(GoodTypeRefRow, flags, t) :
    flags \in {0, 5}, m \in 0..MaxRows, t \in 0..MaxRows }

(* each single bit of the mask, and all 64 together; table id has id + 1 rows *)
BitStreams ==
  { HeaderBytes(StdPrefix, 0, 1, S, [id \in 0..(LENS_LEN - 1) |-> U32(id + 1)])
    \o GoodModuleRow(0, 0) \o Rows(GoodTypeRefRow, 0, 2) :
    S \in { {b} : b \in 0..63 } \cup { 0..63 } }

ReservedFields == {"generation", "enc_id", "enc_base_id"}

BadModuleRow(flags, n, bad, v) ==
  ModuleRowBytes(flags, IF <<n, "generation">> \in bad THEN v ELSE 0,
                 WideIdx(flags, 1, n), WideIdx(flags, 2, n + 16),
                 IF <<n, "enc_id">> \in bad THEN v ELSE 0,
                 IF <<n, "enc_base_id">> \in bad THEN v ELSE 0)

RECURSIVE BadModuleRows(_, _, _, _)
BadModuleRows(flags, n, bad, v) ==
  IF n = 0 THEN <<>>
  ELSE BadModuleRows(flags, n - 1, bad, v) \o BadModuleRow(flags, n - 1, bad, v)

(* Module rows with up to two non-zero reserved fields, then one TypeRef row *)
ReservedStreams ==
  { HeaderBytes(StdPrefix, flags, 1, {0, 1}, [ZeroCounts EXCEPT ![0] = U32(m), ![1] = U32(1)])
    \o BadModuleRows(flags, m, bad, v) \o GoodTypeRefRow(flags, 0) :
    flags \in {0, 3}, m \in 1..MaxRows, v \in {1, 256},
    bad \in { b \in SUBSET ((0..(MaxRows - 1)) \X ReservedFields) : Cardinality(b) <= 2 } }

(* the end-to-end scenario: flags 0, mask 0b11, counts [1, 0], one Module row
   (generation 0, name 1, mvid 1, EncId 0, EncBaseId 0) *)
ScenarioStream(prefix, reserved2) ==
  HeaderBytes(prefix, 0, reserved2, {0, 1}, [ZeroCounts EXCEPT ![0] = U32(1)])
  \o ModuleRowBytes(0, 0, U32(1), U32(1), 0, 0)

ScenarioStreams ==
  { ScenarioStream(prefix, reserved2) : prefix \in {StdPrefix, Zeros(6)}, reserved2 \in {0, 1} }

Prefixes(d) == { SubSeq(d, 1, n) : n \in 0..Len(d) }

(* streams cut short at every length *)
TruncatedStreams ==
  UNION { Prefixes(d) :
          d \in { HeaderBytes(StdPrefix, 0, 1, {}, ZeroCounts),
                  HeaderBytes(StdPrefix, 0, 1, {METADATA_TYPE_DEF, 63},
                              [ZeroCounts EXCEPT ![METADATA_TYPE_DEF] = U32(1),
                                                 ![63] = U32(1)]),
                  ScenarioStream(StdPrefix, 1) \o GoodTypeRefRow(0, 0) } }

BoundaryCounts ==
  { U32(0), U32(1), <<0, 65535>>, <<1, 0>>, <<1, 1>>, <<65535, 65535>> }
  \cup { U32(Pow2(e) - 1) : e \in 10..15 } \cup { U32(Pow2(e)) : e \in 10..15 }

(* ModuleRef row counts around the width boundary of ResolutionScope, and one
   TypeRef row with the scope written in 2 or in 4 bytes *)
ScopeStreams ==
  { HeaderBytes(StdPrefix, 0, 1, {METADATA_TYPE_REF, METADATA_MODULE_REF},
                [ZeroCounts EXCEPT ![METADATA_TYPE_REF] = U32(1), ![METADATA_MODULE_REF] = c])
    \o TypeRefRowBytes(0, EncodeCoded(idx, 2, tag), w, U32(7), U32(9)) \o Zeros(2) :
    c \in { U32(Pow2(13) - 1), U32(Pow2(13)), U32(Pow2(14) - 1), U32(Pow2(14)), <<1, 0>> },
    w \in {2, 4}, tag \in 0..3,
    idx \in { U32(n) : n \in 0..MaxSmallIdx } \cup {MaxCodedIdx(2, 2)} }

Streams ==
  FlagStreams \cup MaskStreams \cup BitStreams \cup CountStreams \cup ReservedStreams
  \cup ScenarioStreams \cup TruncatedStreams \cup ScopeStreams

----------------------------------------------------------------------------

Init ==
  /\ data \in Streams
  /\ pc = "tables_heap_sizes"
  /\ offset = 0
  /\ string_index_size = "U16"
  /\ guid_index_size = "U16"
  /\ blob_index_size = "U16"
  /\ valid_mask = Zeros(8)
  /\ lens = ZeroCounts
  /\ size = 0
  /\ i = 0
  /\ tables = "none"
  /\ base = 0
  /\ rows_data = <<>>
  /\ row = 0
  /\ cur = NoRow
  /\ vec = <<>>
  /\ modules = <<>>
  /\ type_refs = <<>>
  /\ out = [none |-> TRUE]
  /\ regions = <<>>
  /\ kind = "ResolutionScope"
  /\ coded = [none |-> TRUE]

Next ==
  \/ ReadHeapSizes
  \/ ReadValidMask
  \/ ReadLen
  \/ TablesOk
  \/ BeginRows
  \/ TableModules
  \/ ModuleGeneration
  \/ ModuleName
  \/ ModuleMvid
  \/ ModuleEncId
  \/ ModuleEncBaseId
  \/ ModulesOk
  \/ TableTypeRefs
  \/ TypeRefScope
  \/ TypeRefName
  \/ TypeRefNamespace
  \/ TypeRefsOk
  \/ RowsOk

Spec == Init /\ [][Next]_vars

----------------------------------------------------------------------------
(* SpecCoded: every coded index kind's parse, applied to a header and a buffer *)

CandidateIds(k) == { k.entries[n][3] : n \in 1..Len(k.entries) }

ConfiguredTags(k) == { k.entries[n][2] : n \in 1..Len(k.entries) }

(* headers whose row counts put one candidate table at a boundary count; a second
   table, candidate or not, holds another count *)
CodedLens(k) ==
  { [id \in 0..(LENS_LEN - 1) |-> IF id = t THEN c ELSE IF id = u THEN c2 ELSE U32_ZERO] :
    t \in CandidateIds(k), c \in BoundaryCounts,
    u \in {k.entries[1][3], k.entries[Len(k.entries)][3], METADATA_CLASS_LAYOUT},
    c2 \in {U32(1), U32(Pow2(14))} }

InitCodedWidth ==
  /\ kind \in KindNames
  /\ lens \in CodedLens(Kind(kind))
  /\ data = LE32(EncodeCoded(U32(1), Kind(kind).bits, Kind(kind).entries[1][2]))
  /\ offset = 0

InitCodedValue ==
  /\ kind \in KindNames
  /\ lens \in { ZeroCounts, [ZeroCounts EXCEPT ![Kind(kind).entries[1][3]] = <<1, 0>>] }
  /\ \E tag \in 0..(Pow2(Kind(kind).bits) - 1), w \in {2, 4},
        pad \in {<<>>, <<255, 255, 255>>}, rest \in {<<>>, <<255, 255>>} :
       \E idx \in { U32(n) : n \in 0..MaxSmallIdx } \cup {MaxCodedIdx(Kind(kind).bits, w)} :
         /\ data = pad \o IndexBytes(EncodeCoded(idx, Kind(kind).bits, tag), w) \o rest
         /\ offset = Len(pad)

InitCoded ==
  /\ InitCodedWidth \/ InitCodedValue
  /\ pc = "coded_start"
  /\ string_index_size = "U16"
  /\ guid_index_size = "U16"
  /\ blob_index_size = "U16"
  /\ valid_mask = Zeros(8)
  /\ size = 0
  /\ i = 0
  /\ tables = "ok"
  /\ base = 0
  /\ rows_data = <<>>
  /\ row = 0
  /\ cur = NoRow
  /\ vec = <<>>
  /\ modules = <<>>
  /\ type_refs = <<>>
  /\ out = [none |-> TRUE]
  /\ regions = <<>>
  /\ coded = [none |-> TRUE]

NextCoded == CodedParse

SpecCoded == InitCoded /\ [][NextCoded]_vars

----------------------------------------------------------------------------
(* Properties of the coded index kinds (SpecCoded) *)

U32Le(x, y) == x[1] < y[1] \/ (x[1] = y[1] /\ x[2] <= y[2])

(* the largest row count among a kind's candidate tables *)
MaxCandidateCount(k, hlens) ==
  CHOOSE m \in { hlens[t] : t \in CandidateIds(k) } :
    \A t \in CandidateIds(k) : U32Le(hlens[t], m)

CodedDone == pc = "coded_done"

(* the parse read its raw value: it did not end in a bounds error *)
CodedRead == CodedDone /\ (coded.ok \/ coded.err # BoundsError)

CodedFrom == regions[1].from

CodedConsumed == coded.offset - CodedFrom

(* least b with 2^b >= n *)
CeilLog2(n) == CHOOSE b \in 0..16 : Pow2(b) >= n /\ (b = 0 \/ Pow2(b - 1) < n)

(* C1: for every kind with tag width b, the parse reads 2 bytes exactly when the
   largest row count of its candidate tables is below 2^(16-b), and 4 bytes
   otherwise. *)
C1_WidthBoundary ==
  CodedRead =>
    CodedConsumed =
      (IF U32Lt(MaxCandidateCount(Kind(kind), lens), Pow2(16 - Kind(kind).bits))
       THEN 2 ELSE 4)

(* the tag of the raw value at the cursor, from its first (lowest) byte *)
RawTag == data[CodedFrom + 1] % Pow2(Kind(kind).bits)

(* C6: a raw value whose tag is not configured for the kind gives the "unknown
   coded index tag" error and no variant; a raw value whose tag is configured
   parses. *)
C6_UnknownTag ==
  CodedRead =>
    IF RawTag \in ConfiguredTags(Kind(kind))
    THEN coded.ok
    ELSE /\ ~coded.ok
         /\ coded.err = "Unknown coded index tag."
         /\ "variant" \notin DOMAIN coded

C6_Witness ==
  /\ CodedRead
  /\ kind = "CustomAttributeType"
  /\ RawTag = 4
  /\ ~coded.ok
  /\ CodedConsumed = 4

(* the bytes the parse consumed *)
CodedBytes == SubSeq(data, CodedFrom + 1, CodedFrom + CodedConsumed)

RepresentativeIdx(bits, width) ==
  { U32(n) : n \in 0..MaxSmallIdx } \cup {MaxCodedIdx(bits, width)}

(* C8: decoding raw = (row_index << b) | tag, for a configured tag and the row
   indexes 0, 1 and the largest of the width read, gives the variant of the tag
   with that row index. *)
C8_RoundTrip ==
  CodedRead =>
    \A n \in 1..Len(Kind(kind).entries) :
      \A idx \in RepresentativeIdx(Kind(kind).bits, CodedConsumed) :
        CodedBytes = IndexBytes(EncodeCoded(idx, Kind(kind).bits, Kind(kind).entries[n][2]),
                                CodedConsumed)
        => /\ coded.ok
           /\ coded.variant = Kind(kind).entries[n][1]
           /\ coded.idx = idx

C8_Witness ==
  /\ CodedRead
  /\ kind = "HasCustomAttribute"
  /\ CodedConsumed = 4
  /\ CodedBytes = <<245, 255, 255, 255>>
  /\ coded.ok
  /\ coded.variant = "MethodSpec"
  /\ coded.idx = <<2047, 65535>>

(* C9 as claimed: for every kind, the tag width b is the ceiling of log2 of the
   number of candidate tables, and every configured tag is below 2^b. *)
C9_BitsAreCeilLog2 ==
  /\ Kind(kind).bits = CeilLog2(Len(Kind(kind).entries))
  /\ \A tag \in ConfiguredTags(Kind(kind)) : tag < Pow2(Kind(kind).bits)

(* C9 amended: the tag width is the ceiling of log2 of the number of candidate
   tables for every kind but CustomAttributeType, whose 2 candidates carry the
   tags 2 and 3 in 3 bits; every configured tag of every kind is below 2^b. *)
C9_BitsCoverTags ==
  /\ kind # "CustomAttributeType"
       => Kind(kind).bits = CeilLog2(Len(Kind(kind).entries))
  /\ kind = "CustomAttributeType"
       => /\ Kind(kind).bits = 3
          /\ Len(Kind(kind).entries) = 2
          /\ ConfiguredTags(Kind(kind)) = {2, 3}
  /\ \A tag \in ConfiguredTags(Kind(kind)) : tag < Pow2(Kind(kind).bits)

C9_Witness ==
  /\ CodedRead
  /\ kind = "CustomAttributeType"
  /\ coded.ok
  /\ coded.variant = "MemberRef"

----------------------------------------------------------------------------
(* Properties of Tables::parse and TableRows::parse (Spec) *)

(* the table ids whose bit is set in the 8 mask bytes of the stream, at offset 8 *)
PresentIds == { id \in 0..63 : (data[9 + id \div 8] \div Pow2(id % 8)) % 2 = 1 }

(* how many present ids lie below id *)
Rank(id) == Cardinality({ j \in PresentIds : j < id })

(* C4: Tables::parse reads one 4-byte row count per set bit of the mask, in
   ascending bit order from offset 24, stores the j-th at the index of the j-th
   set bit, leaves the other entries 0 and reports size = 24 + 4k. *)
C4_RowCounts ==
  /\ pc = "tables_lens" =>
       /\ offset = 24 + 4 * Rank(i)
       /\ \A id \in 0..63 :
            lens[id] = IF id < i /\ id \in PresentIds
                       THEN ReadU32(data, 24 + 4 * Rank(id)) ELSE U32_ZERO
  /\ tables = "ok" =>
       /\ size = 24 + 4 * Cardinality(PresentIds)
       /\ \A id \in 0..63 :
            lens[id] = IF id \in PresentIds
                       THEN ReadU32(data, 24 + 4 * Rank(id)) ELSE U32_ZERO

C4_Witness ==
  /\ pc = "tables_ok"
  /\ PresentIds = {METADATA_TYPE_DEF, METADATA_MODULE_REF, 63}
  /\ size = 36
  /\ lens[METADATA_TYPE_DEF] = U32(3)
  /\ lens[METADATA_MODULE_REF] = U32(5)
  /\ lens[63] = <<65535, 65534>>
  /\ lens[METADATA_MODULE] = U32_ZERO

(* the width the heap-size flag byte (stream offset 6) gives a heap index *)
FlagByteWidth(bit) == IF (data[7] \div bit) % 2 = 1 THEN 4 ELSE 2

FlagByteSize(bit) == IF FlagByteWidth(bit) = 4 THEN "U32" ELSE "U16"

(* the bytes of one Module row under the flag byte *)
ModuleRowSize == 2 + FlagByteWidth(1) + FlagByteWidth(2) + 2 + 2

HeapSizesRead == pc # "tables_heap_sizes" /\ Len(data) >= 7

(* C5: bit 0, 1, 2 of the heap-size flag byte alone decides whether the string,
   GUID, blob index size is U32, and StringIndex::parse and GuidIndex::parse
   consume 4 bytes for U32 and 2 for U16. *)
C5_HeapIndexSizes ==
  /\ HeapSizesRead =>
       /\ string_index_size = FlagByteSize(1)
       /\ guid_index_size = FlagByteSize(2)
       /\ blob_index_size = FlagByteSize(4)
  /\ pc = "module_name" => offset = row * ModuleRowSize + 2
  /\ pc = "module_mvid" => offset = row * ModuleRowSize + 2 + FlagByteWidth(1)
  /\ pc = "module_enc_id" =>
       offset = row * ModuleRowSize + 2 + FlagByteWidth(1) + FlagByteWidth(2)

C5_Witness ==
  /\ pc = "module_enc_id"
  /\ data[7] = 250
  /\ base = size
  /\ string_index_size = "U16"
  /\ guid_index_size = "U32"
  /\ blob_index_size = "U16"
  /\ offset = 8

(* the n-th smallest present id *)
NthPresent(n) == CHOOSE id \in PresentIds : Rank(id) = n - 1

(* C2 as claimed: TableRows::parse decodes the rows of every present table id,
   in ascending id order, so that a mask with k bits set makes it consume k row
   regions. *)
C2_EveryPresentTableDecoded ==
  (pc = "rows_done" /\ out.ok) =>
    /\ Len(regions) = Cardinality(PresentIds)
    /\ \A n \in 1..Len(regions) : regions[n].id = NthPresent(n)

(* the expected result of the end-to-end scenario *)
ScenarioResult ==
  [ok |-> TRUE, modules |-> <<[name |-> U32(1), mvid |-> U32(1)]>>, type_refs |-> <<>>]

(* C3 as claimed: given the same slice as Tables::parse, TableRows::parse reads
   its first row byte at offset header.size, and the scenario stream decodes to
   one Module row {name 1, mvid 1} and no TypeRef row. *)
C3_SameSlice ==
  (pc = "rows_done" /\ base = 0 /\ data \in ScenarioStreams) =>
    /\ regions[1].from = size
    /\ out = ScenarioResult

(* C3 amended: given the slice that begins at offset header.size of the stream,
   TableRows::parse reads its first row byte at stream offset header.size, and
   the scenario stream decodes to one Module row {name 1, mvid 1} and no
   TypeRef row. *)
C3_RowsAfterHeader ==
  (pc \in {"module_row", "type_ref_row", "rows_done"} /\ base = size) =>
    /\ regions # <<>> => regions[1].from = size
    /\ (pc = "rows_done" /\ data \in ScenarioStreams) => out = ScenarioResult

C3_Witness ==
  /\ pc = "rows_done"
  /\ base = size
  /\ size = 32
  /\ data = ScenarioStream(StdPrefix, 1)
  /\ out = ScenarioResult
  /\ offset = 10

(* the offset, in a Module row, of a reserved field under the header's sizes *)
ReservedOffset(f) ==
  CASE f = "generation" -> 0
    [] f = "enc_id" -> 2 + IndexWidth(string_index_size) + IndexWidth(guid_index_size)
    [] f = "enc_base_id" -> 4 + IndexWidth(string_index_size) + IndexWidth(guid_index_size)

HeaderModuleRowSize == 6 + IndexWidth(string_index_size) + IndexWidth(guid_index_size)

(* where reserved field f of Module row r ends in the row slice *)
ReservedEnd(r, f) == r * HeaderModuleRowSize + ReservedOffset(f) + 2

(* the reserved fields of the Module rows that lie in the row slice and are not 0 *)
Offending ==
  { rf \in (0..(Len(rows_data) \div HeaderModuleRowSize)) \X ReservedFields :
      /\ has_table(METADATA_MODULE)
      /\ IndexBelow(rf[1], lens[METADATA_MODULE])
      /\ ReservedEnd(rf[1], rf[2]) <= Len(rows_data)
      /\ ReadU16(rows_data, ReservedEnd(rf[1], rf[2]) - 2) # 0 }

FirstOffendingEnd ==
  CHOOSE e \in { ReservedEnd(rf[1], rf[2]) : rf \in Offending } :
    \A rf \in Offending : e <= ReservedEnd(rf[1], rf[2])

(* C7: a Module row with a non-zero generation, EncId or EncBaseId makes
   TableRows::parse return an error and no rows; no TypeRef row is decoded and
   the cursor stops after the offending field. *)
C7_ReservedFieldAborts ==
  (pc = "rows_done" /\ Offending # {}) =>
    /\ ~out.ok
    /\ out.err \in {"Module has invalid generation.", "Module.EncId is not zero.",
                    "Module.EncBaseId is not zero."}
    /\ DOMAIN out = {"ok", "err"}
    /\ vec = <<>>
    /\ Len(regions) = 1
    /\ regions[1].id = METADATA_MODULE
    /\ offset = FirstOffendingEnd

C7_Witness ==
  /\ pc = "rows_done"
  /\ base = size
  /\ Offending = {<<1, "enc_id">>}
  /\ out = [ok |-> FALSE, err |-> "Module.EncId is not zero."]
  /\ string_index_size = "U32"
  /\ vec = <<>>
  /\ offset = 26

(* C10 as claimed: when Tables::parse succeeds, the size it reports does not
   exceed the length of the buffer. *)
C10_SizeWithinBuffer ==
  tables = "ok" => size <= Len(data)

====
